---- MODULE Spec2Model ----
(***************************************************************************)
(* htop-ui: the telemetry pipeline of the terminal dashboard.              *)
(*                                                                         *)
(* Sampler tasks (cmd/mod.rs) publish tagged messages on one mpsc channel; *)
(* App::run (app/mod.rs) receives them, merges them into the App fields,   *)
(* renders, toggles the blink flag and handles the keyboard.               *)
(*                                                                         *)
(* f32 values are modelled in tenths of a percent (2 is 0.2), with NaN a   *)
(* value of its own; durations are in units of 100 ms.                     *)
(***************************************************************************)
EXTENDS Integers, Sequences, FiniteSets, TLC

VARIABLES
    bus,              \* the mpsc channel (tx, rx): messages sent and not yet received
    cpc,              \* where App::run is
    exit,             \* App.exit
    processes,        \* App.processes
    selected,         \* App.state.selected()
    network,          \* App.network
    cores_usage,      \* App.cores_usage
    mem_usage,        \* App.mem_usage
    disks_usage,      \* App.disks_usage
    blink_threshold,  \* App.blink_threshold
    elapsed,          \* App.last_tick.elapsed()
    timeout,          \* handle_keyboard_events: the poll timeout
    config,           \* App.config
    overflow_checks,  \* the build profile: overflow checks on (debug) or off (release)
    ppc,              \* where the process sampler task is
    pcycles,          \* cycles the process sampler has begun
    sys_lock,         \* the Mutex around sysinfo::System: "free", or the task that holds it
    npc,              \* where the network sampler task is
    ncycles,          \* cycles the network sampler has begun
    interfaces,       \* network sampler: the interfaces of this cycle still to visit
    net_data,         \* network sampler: upload_gb, download_gb / net_data
    sent,             \* history: messages each sampler has sent
    applied,          \* history: messages of each sampler the run loop has applied
    last_seq,         \* history: the send number of the last message applied, per sampler
    backlog,          \* history: messages the last try_recv found and left in the channel
    last_procs,       \* history: the payload of the last Processes message received
    last_key,         \* history: the key handle_keyboard_events read last, "" outside it
    uptime            \* provider: System::uptime() as get_general_info read it last

vars == <<bus, cpc, exit, processes, selected, network, cores_usage, mem_usage,
          disks_usage, blink_threshold, elapsed, timeout, config, overflow_checks,
          ppc, pcycles, sys_lock, npc, ncycles, interfaces, net_data,
          sent, applied, last_seq, backlog, last_procs, last_key, uptime>>

\* ------------------------------------------------------------------ bounds

\* Sampling cycles each sampler task runs in the whole program and in the
\* pipeline; the process table, the selection and the faults are given one
\* cycle more.
MaxCycles == 1

\* A sampler's sleep ends only while the channel holds at most this many
\* messages.
MaxBacklog == 0

\* Cap on the selection index a release build reaches on an empty table.
MaxSelected == 2

\* ------------------------------------------------------------------ values

\* f32::NAN: process.cpu_usage() / sys.global_cpu_usage() with both 0.0.
NaN == -1

\* Option::None of TableState::selected().
None == -1

\* usize::MAX, scaled to the integers TLC has.
USIZE_MAX == 2147483647

\* u64::MAX, scaled to a 20-bit word so that a product with 100 is an integer
\* TLC has.
U64_MAX == 1048575

\* update_processes: the visibility floor 0.2.
CPU_FLOOR == 2

\* AppConfig::TICK_RATE, 100 ms.
TICK_RATE == 1

\* AppConfig::BLINK_THRESHOLD_RATE, 1 s.
BLINK_THRESHOLD_RATE == 10

IsNaN(x) == x = NaN

\* f32 `<` and `<=`: false when an operand is NaN.
f32_lt(a, b) == ~IsNaN(a) /\ ~IsNaN(b) /\ a < b

f32_le(a, b) == ~IsNaN(a) /\ ~IsNaN(b) /\ a <= b

\* f32::partial_cmp.
partial_cmp(a, b) ==
    IF IsNaN(a) \/ IsNaN(b) THEN "None"
    ELSE IF a < b THEN "Less"
    ELSE IF a = b THEN "Equal"
    ELSE "Greater"

Range(s) == {s[i] : i \in 1..Len(s)}

\* Every ordering of the elements of s.
Perms(s) ==
    {t \in [1..Len(s) -> Range(s)] : \A i, j \in 1..Len(s) : i # j => t[i] # t[j]}

HasNaN(procs) == \E i \in 1..Len(procs) : IsNaN(procs[i].cpu_usage)

\* ------------------------------------------------------------------ process table

\* The comparator with its operands the other way round,
\* a.cpu_usage.partial_cmp(&b.cpu_usage).
cmp_cpu_asc(a, b) ==
    LET o == partial_cmp(a.cpu_usage, b.cpu_usage)
    IN  IF o = "None" THEN "Equal" ELSE o

\* The comparator of both sorts, |a, b| b.cpu_usage.partial_cmp(&a.cpu_usage),
\* with None read as Equal (unwrap_or(Ordering::Equal)).
cmp_cpu_desc(a, b) ==
    LET o == partial_cmp(b.cpu_usage, a.cpu_usage)
    IN  IF o = "None" THEN "Equal" ELSE o

\* slice::sort_by is a stable sort: x goes behind every element that does not
\* compare Greater than it.
RECURSIVE insert_sorted(_, _)
insert_sorted(s, x) ==
    IF s = <<>> THEN <<x>>
    ELSE IF cmp_cpu_desc(s[Len(s)], x) = "Greater"
         THEN Append(insert_sorted(SubSeq(s, 1, Len(s) - 1), x), s[Len(s)])
         ELSE Append(s, x)

RECURSIVE sort_by_cpu_desc(_)
sort_by_cpu_desc(s) ==
    IF s = <<>> THEN <<>>
    ELSE insert_sorted(sort_by_cpu_desc(SubSeq(s, 1, Len(s) - 1)), s[Len(s)])

\* With NaN read as Equal to everything the comparator is no total order as soon
\* as two other values differ.
cmp_is_total_order(procs) ==
    ~(HasNaN(procs)
      /\ \E i, j \in 1..Len(procs) :
            /\ ~IsNaN(procs[i].cpu_usage) /\ ~IsNaN(procs[j].cpu_usage)
            /\ procs[i].cpu_usage # procs[j].cpu_usage)

\* A sort that is not stable: rows that compare Equal come out in the reverse
\* of the order they came in.
sort_unstable_by_cpu(procs) ==
    {[panic |-> FALSE,
      procs |-> sort_by_cpu_desc([i \in 1..Len(procs) |-> procs[Len(procs) + 1 - i]])]}

\* Process::sort_most_consume_cpu: the outcomes. Under a comparator that is no
\* total order sort_by leaves the elements in an unspecified order, or panics.
sort_most_consume_cpu(procs) ==
    IF cmp_is_total_order(procs)
    THEN {[panic |-> FALSE, procs |-> sort_by_cpu_desc(procs)]}
    ELSE {[panic |-> FALSE, procs |-> t] : t \in Perms(procs)}
         \cup {[panic |-> TRUE, procs |-> procs]}

\* update_processes without its self.processes.clear().
update_processes_keep(old, procs) ==
    LET pushed == old \o SelectSeq(procs, LAMBDA p : ~f32_lt(p.cpu_usage, CPU_FLOOR))
    IN  IF Len(pushed) >= 2 /\ HasNaN(pushed)
        THEN [panic |-> TRUE, processes |-> pushed]
        ELSE [panic |-> FALSE, processes |-> sort_by_cpu_desc(pushed)]

\* App::update_processes on self.processes = old: clear, push what is not below
\* the floor, sort. partial_cmp(..).unwrap() panics on the first comparison with
\* a NaN, and a sort of two or more rows compares every row.
update_processes(old, procs) ==
    LET pushed == SelectSeq(procs, LAMBDA p : ~f32_lt(p.cpu_usage, CPU_FLOOR))
    IN  IF Len(pushed) >= 2 /\ HasNaN(pushed)
        THEN [panic |-> TRUE, processes |-> pushed]
        ELSE [panic |-> FALSE, processes |-> sort_by_cpu_desc(pushed)]

\* ------------------------------------------------------------------ selection

\* usize subtraction len - 1: panics under overflow checks, wraps without.
len_minus_one(len, checks) ==
    IF len >= 1 THEN [panic |-> FALSE, value |-> len - 1]
    ELSE IF checks THEN [panic |-> TRUE, value |-> 0]
    ELSE [panic |-> FALSE, value |-> USIZE_MAX]

\* next_row that wraps: from the last row to row 0.
next_row_wrapping(sel, len, checks) ==
    [panic |-> FALSE,
     row |-> IF sel = None \/ sel >= len - 1 THEN 0 ELSE sel + 1]

\* next_row without its bound: always row + 1.
next_row_unbounded(sel, len, checks) ==
    [panic |-> FALSE, row |-> IF sel = None THEN 0 ELSE sel + 1]

\* App::next_row.
next_row(sel, len, checks) ==
    IF sel = None THEN [panic |-> FALSE, row |-> 0]
    ELSE LET last == len_minus_one(len, checks)
         IN  IF last.panic THEN [panic |-> TRUE, row |-> sel]
             ELSE IF sel >= last.value THEN [panic |-> FALSE, row |-> last.value]
             ELSE [panic |-> FALSE, row |-> sel + 1]

\* App::previous_row.
previous_row(sel) ==
    IF sel = None THEN 0
    ELSE IF sel = 0 THEN 0
    ELSE sel - 1

\* render_table: frame.render_stateful_widget(t, area, &mut self.state). The
\* Table widget brings the selection back into the rows it draws, and does
\* nothing when its area is empty.
render_table(sel, len, area_empty) ==
    IF area_empty THEN sel
    ELSE IF len = 0 THEN None
    ELSE IF sel # None /\ sel >= len THEN len - 1
    ELSE sel

\* ------------------------------------------------------------------ disks

\* u64 `-`, `*` and `/`: under overflow checks a result out of range panics,
\* without them it wraps; a division by zero panics in every build.
u64_sub(a, b, checks) ==
    IF a >= b THEN [panic |-> FALSE, value |-> a - b]
    ELSE IF checks THEN [panic |-> TRUE, value |-> 0]
    ELSE [panic |-> FALSE, value |-> a - b + U64_MAX + 1]

u64_mul(a, b, checks) ==
    IF a * b <= U64_MAX THEN [panic |-> FALSE, value |-> a * b]
    ELSE IF checks THEN [panic |-> TRUE, value |-> 0]
    ELSE [panic |-> FALSE, value |-> (a * b) % (U64_MAX + 1)]

u64_div(a, b) ==
    IF b = 0 THEN [panic |-> TRUE, value |-> 0]
    ELSE [panic |-> FALSE, value |-> a \div b]

\* Disk::percent_used_space.
percent_used_space(disk, checks) ==
    LET used_space == u64_sub(disk.total_space, disk.available_space, checks)
        scaled == u64_mul(used_space.value, 100, checks)
        percent == u64_div(scaled.value, disk.total_space)
    IN  IF used_space.panic \/ scaled.panic \/ percent.panic
        THEN [panic |-> TRUE, value |-> 0]
        ELSE [panic |-> FALSE, value |-> percent.value]

\* render_disks_usage: the loop over self.disks_usage calls percent_used_space
\* for each disk; it panics when one of the calls does.
render_disks_usage_panics(disks, checks) ==
    \E i \in 1..Len(disks) : percent_used_space(disks[i], checks).panic

\* ------------------------------------------------------------------ channel

\* Sender::send: the channel is unbounded, the message joins the back.
send(q, m) == Append(q, m)

\* mpsc::channel() has no capacity: send never waits for room.
can_send(q) == TRUE

try_recv_lifo(q) == [msg |-> q[Len(q)], rest |-> SubSeq(q, 1, Len(q) - 1)]

try_recv_drop(q) == [msg |-> Head(q), rest |-> <<>>]

\* Receiver::try_recv on a channel that holds a message: the front one.
try_recv(q) == [msg |-> Head(q), rest |-> Tail(q)]

recv_empty(q) == FALSE

\* Receiver::try_recv on an empty channel returns Err(Empty) at once.
try_recv_empty(q) == q = <<>>

\* A message as sent: what the enum variant holds, with who sent it and as
\* which of its sends (history, read by no action).
Message(kind, src, body) ==
    [kind |-> kind, src |-> src, seq |-> sent[src] + 1, body |-> body]

Samplers == {"proc", "net", "disk", "temp", "info"}

\* ------------------------------------------------------------------ provider

\* What sys.processes() can hold: each pid once, in any order.
Snapshots(pids, cpus, mems, users) ==
    LET E == [pid : pids, cpu : cpus, mem : mems, user : users]
    IN  UNION {{s \in [1..n -> E] : \A i, j \in 1..n : i # j => s[i].pid # s[j].pid}
               : n \in 0..Cardinality(pids)}

\* What a process of sys.processes() can have for an owner: the name of its
\* user, no user id (process.user_id() is None), or a user id the Users list
\* has no record of (users.get_user_by_id(..) is None).
NoUserId == "no user id"

NoUserRecord == "no user record"

\* list_all_processes: process.user_id().unwrap(), then
\* users.get_user_by_id(user_id).unwrap().name().
lookup_user(e) ==
    IF e.user \in {NoUserId, NoUserRecord}
    THEN [panic |-> TRUE, name |-> ""]
    ELSE [panic |-> FALSE, name |-> e.user]

\* The loop over sys.processes() looks up the user of every process, before it
\* looks at its cpu and memory shares.
lookup_panics(snapshot) ==
    \E i \in 1..Len(snapshot) : lookup_user(snapshot[i]).panic

\* f32::round of a value that is not negative.
round(x) == ((x + 5) \div 10) * 10

\* list_all_processes: the loop over sys.processes() that builds vec_proc.
build_vec_proc(snapshot) ==
    LET kept == SelectSeq(snapshot,
                    LAMBDA e : ~(f32_le(e.cpu, 0) \/ f32_le(e.mem, 0)))
    IN  [i \in 1..Len(kept) |->
            [pid |-> kept[i].pid, cpu_usage |-> kept[i].cpu,
             mem_usage |-> round(kept[i].mem)]]

\* Network::update.
network_update(upload, download) == [upload |-> upload, download |-> download]

\* get_network_info: to kilobits, bytes * 8 / 1000.
to_kilobits(bytes) == (bytes * 8) \div 1000

\* ------------------------------------------------------------------ inputs

\* The snapshots, interface lists and disk lists the provider returns in the
\* pipeline specification.
PipelineSnapshots ==
    {<<>>,
     <<[pid |-> 1, cpu |-> 3, mem |-> 10, user |-> "root"]>>,
     <<[pid |-> 1, cpu |-> NaN, mem |-> 10, user |-> "root"], [pid |-> 2, cpu |-> 3, mem |-> 10, user |-> "root"]>>}

PipelineInterfaces ==
    {<<[physical |-> FALSE, transmitted |-> 1000, received |-> 1000],
       [physical |-> TRUE, transmitted |-> 1000, received |-> 2000]>>}

\* The interface lists of the network specification: none that matches "wlp"
\* or "enp", one, or two.
NetworkInterfaces ==
    {<<>>,
     <<[physical |-> FALSE, transmitted |-> 1000, received |-> 1000]>>,
     <<[physical |-> FALSE, transmitted |-> 1000, received |-> 1000],
       [physical |-> TRUE, transmitted |-> 1000, received |-> 2000]>>,
     <<[physical |-> TRUE, transmitted |-> 1000, received |-> 2000],
       [physical |-> TRUE, transmitted |-> 1000, received |-> 500]>>}

PipelineDisks == {<<[total_space |-> 100, available_space |-> 30]>>}

PipelineMemUsage == {40}

PipelineCoresUsage == {<<50>>}

\* The snapshots of the process table specification: up to three processes, in
\* any order, with a cpu share that is NaN, zero, under the floor or over it.
TableSnapshots == Snapshots(1..3, {NaN, 0, 1, 2, 3}, {10}, {"root"})

\* The snapshots of the selection specification: no process, one, or three.
SelectionSnapshots ==
    {<<>>,
     <<[pid |-> 1, cpu |-> 3, mem |-> 10, user |-> "root"]>>,
     <<[pid |-> 1, cpu |-> 3, mem |-> 10, user |-> "root"], [pid |-> 2, cpu |-> 3, mem |-> 10, user |-> "root"],
       [pid |-> 3, cpu |-> 2, mem |-> 10, user |-> "root"]>>}

\* The disk lists of the disk specification: no disk, or one whose capacity is
\* zero, ordinary or the largest there is.
DiskLists ==
    {<<>>} \cup {<<d>> : d \in [total_space : {0, 100, U64_MAX},
                                available_space : {0, 30, 100}]}

\* The snapshots of the fault specification: no process, one with its user,
\* one without a user id, one with its user and one without a user record.
FaultSnapshots ==
    {<<>>,
     <<[pid |-> 1, cpu |-> 3, mem |-> 10, user |-> "root"]>>,
     <<[pid |-> 1, cpu |-> 0, mem |-> 10, user |-> NoUserId]>>,
     <<[pid |-> 1, cpu |-> 3, mem |-> 10, user |-> "root"],
       [pid |-> 2, cpu |-> 3, mem |-> 10, user |-> NoUserRecord]>>}

\* The snapshots of the filter specification: up to two processes, with a cpu
\* share that is NaN (0.0 / 0.0), zero or 0.3 %, and a memory share that is
\* zero, 0.3 %, 0.7 % or 1.0 %.
FilterSnapshots == Snapshots(1..2, {NaN, 0, 3}, {0, 3, 7, 10}, {"root"})

\* The components of the merge specification: none, or one sensor, with or
\* without a reading, a reading of 0.0 or of 45.0 degrees, with or without a
\* maximum.
MergeComponents ==
    {<<>>} \cup {<<c>> : c \in [label : {"cpu"}, temperature : {None, 0, 450},
                                max : {None, 900}, critical : {None}]}

\* What System::uptime() can return, in seconds: from nothing to over two days.
Uptimes == {0, 59, 3600, 86399, 86400, 90061, 200000}

\* What System::load_average() can return: one, five and fifteen minutes.
LoadAverages == {<<1, 1, 1>>}

\* The ProcessStatus of the processes of sys.processes().
StatusLists == {<<>>, <<"Run", "Sleep", "Sleep">>}

KeyCodes == {"q", "j", "k", "other"}

\* What event::read() can return: a key event, a press or a release, of one of
\* the six keys of the match or of another key, or an event that is no key
\* event.
Events ==
    [type : {"Key"}, kind : {"Press", "Release"},
     code : {"q", "Esc", "j", "Down", "k", "Up", "x"}]
    \cup {[type |-> "Resize", kind |-> "", code |-> ""]}

\* AppConfig::new without a configuration file.
DefaultConfig ==
    [tick_rate |-> TICK_RATE, blink_threshold_rate |-> BLINK_THRESHOLD_RATE]

\* A configuration file that sets both rates to 100 ms.
FastBlinkConfig == [tick_rate |-> 1, blink_threshold_rate |-> 1]

\* ------------------------------------------------------------------ state

store == <<exit, processes, selected, network, cores_usage, mem_usage,
           disks_usage, blink_threshold>>

clock == <<elapsed, timeout>>

build == <<config, overflow_checks>>

proc_task == <<ppc, pcycles, sys_lock>>

net_task == <<npc, ncycles, interfaces, net_data>>

history == <<sent, applied, last_seq, backlog, last_procs>>

\* App::run is inside its while loop.
Running == cpc \in {"recv", "draw", "tick", "keys", "sleep"}

\* App::new. AppConfig::new reads the rates from the configuration file, or
\* falls back to its defaults; the build is a debug or a release build.
InitWith(configs, profiles) ==
    /\ bus = <<>>
    /\ cpc = "new"
    /\ exit = FALSE
    /\ processes = <<>>
    /\ selected = 0
    /\ network = network_update(0, 0)
    /\ cores_usage = <<>>
    /\ mem_usage = 0
    /\ disks_usage = <<>>
    /\ blink_threshold = FALSE
    /\ elapsed = 0
    /\ timeout = 0
    /\ config \in configs
    /\ overflow_checks \in profiles
    /\ ppc = "idle"
    /\ pcycles = 0
    /\ sys_lock = "free"
    /\ npc = "idle"
    /\ ncycles = 0
    /\ interfaces = <<>>
    /\ net_data = network_update(0, 0)
    /\ sent = [s \in Samplers |-> 0]
    /\ applied = [s \in Samplers |-> 0]
    /\ last_seq = [s \in Samplers |-> 0]
    /\ backlog = 0
    /\ last_procs = <<>>
    /\ last_key = ""
    /\ uptime = 0

\* ------------------------------------------------------------------ samplers

\* App::run before its loop: spawn list_all_processes and get_network_info,
\* and get_disk_usage, which sends the disks once, here.
RunStart(disk_lists) ==
    /\ cpc = "new"
    /\ \E disks \in disk_lists :
          bus' = send(bus, Message("DiskUsage", "disk", disks))
    /\ sent' = [sent EXCEPT !["disk"] = @ + 1]
    /\ ppc' = "refresh"
    /\ npc' = "refresh"
    /\ cpc' = "recv"
    /\ UNCHANGED <<store, clock, build, uptime, last_key, pcycles, sys_lock, ncycles,
                   interfaces, net_data, applied, last_seq, backlog, last_procs>>

\* list_all_processes: sys.lock().await, refresh, build vec_proc, send
\* Message::Processes.
ProcSendProcesses(snapshots, cycles, pending) ==
    /\ Running
    /\ can_send(bus)
    /\ ppc = "refresh"
    /\ sys_lock = "free"
    /\ sys_lock' = "proc"
    /\ pcycles < cycles
    /\ Len(bus) <= pending
    /\ \E snapshot \in snapshots :
          /\ ~lookup_panics(snapshot)
          /\ bus' = send(bus, Message("Processes", "proc", build_vec_proc(snapshot)))
    /\ sent' = [sent EXCEPT !["proc"] = @ + 1]
    /\ pcycles' = pcycles + 1
    /\ ppc' = "send_mem"
    /\ UNCHANGED <<cpc, store, clock, build, uptime, last_key, net_task,
                   applied, last_seq, backlog, last_procs>>

\* list_all_processes: sys.lock().await, refresh, and a panic in the loop over
\* sys.processes(): the task ends, nothing is sent, the MutexGuard is dropped.
ProcPanic(snapshots, cycles, pending) ==
    /\ Running
    /\ ppc = "refresh"
    /\ sys_lock = "free"
    /\ pcycles < cycles
    /\ Len(bus) <= pending
    /\ \E snapshot \in snapshots : lookup_panics(snapshot)
    /\ pcycles' = pcycles + 1
    /\ ppc' = "dead"
    /\ UNCHANGED <<bus, cpc, store, clock, build, uptime, last_key, sys_lock, net_task, history>>

\* list_all_processes: send Message::MemUsage.
ProcSendMemUsage(values) ==
    /\ Running
    /\ can_send(bus)
    /\ ppc = "send_mem"
    /\ \E total_mem_usage \in values :
          bus' = send(bus, Message("MemUsage", "proc", total_mem_usage))
    /\ sent' = [sent EXCEPT !["proc"] = @ + 1]
    /\ ppc' = "send_cores"
    /\ UNCHANGED <<cpc, store, clock, build, uptime, last_key, pcycles, sys_lock, net_task,
                   applied, last_seq, backlog, last_procs>>

\* utils::send_cores_usage; the task then sleeps, the MutexGuard `sys` still in
\* scope.
ProcSendCoresUsage(values) ==
    /\ Running
    /\ can_send(bus)
    /\ ppc = "send_cores"
    /\ \E usages \in values :
          bus' = send(bus, Message("CpuUsage", "proc", usages))
    /\ sent' = [sent EXCEPT !["proc"] = @ + 1]
    /\ ppc' = "sleep"
    /\ UNCHANGED <<cpc, store, clock, build, uptime, last_key, pcycles, sys_lock, net_task,
                   applied, last_seq, backlog, last_procs>>

\* list_all_processes: the sleep of one second is over and the body of the
\* loop ends, which drops the MutexGuard.
ProcWake ==
    /\ Running
    /\ ppc = "sleep"
    /\ ppc' = "refresh"
    /\ sys_lock' = "free"
    /\ UNCHANGED <<bus, cpc, store, clock, build, uptime, last_key, pcycles, net_task, history>>

\* get_network_info: networks.refresh, upload_gb = download_gb = 0.
NetRefresh(interface_lists) ==
    /\ Running
    /\ npc = "refresh"
    /\ ncycles < MaxCycles
    /\ Len(bus) <= MaxBacklog
    /\ interfaces' \in interface_lists
    /\ net_data' = network_update(0, 0)
    /\ ncycles' = ncycles + 1
    /\ npc' = "interfaces"
    /\ UNCHANGED <<bus, cpc, store, clock, build, uptime, last_key, proc_task, history>>

\* get_network_info: one turn of the loop over the interfaces, on one that
\* matches "wlp" or "enp": add, update net_data, send it.
NetSendNetwork ==
    /\ Running
    /\ can_send(bus)
    /\ npc = "interfaces"
    /\ interfaces # <<>>
    /\ Head(interfaces).physical
    /\ LET upload_gb == net_data.upload + to_kilobits(Head(interfaces).transmitted)
           download_gb == net_data.download + to_kilobits(Head(interfaces).received)
       IN  /\ net_data' = network_update(upload_gb, download_gb)
           /\ bus' = send(bus, Message("Network", "net", net_data'))
    /\ sent' = [sent EXCEPT !["net"] = @ + 1]
    /\ interfaces' = Tail(interfaces)
    /\ UNCHANGED <<cpc, store, clock, build, uptime, last_key, proc_task, npc, ncycles,
                   applied, last_seq, backlog, last_procs>>

\* get_network_info: one turn of the loop on an interface that does not match.
NetSkipInterface ==
    /\ Running
    /\ npc = "interfaces"
    /\ interfaces # <<>>
    /\ ~Head(interfaces).physical
    /\ interfaces' = Tail(interfaces)
    /\ UNCHANGED <<bus, cpc, store, clock, build, uptime, last_key, proc_task, npc, ncycles, net_data,
                   history>>

\* get_network_info: the loop over the interfaces is over, sleep.
NetSleep ==
    /\ Running
    /\ npc = "interfaces"
    /\ interfaces = <<>>
    /\ npc' = "refresh"
    /\ UNCHANGED <<bus, cpc, store, clock, build, uptime, last_key, proc_task, ncycles, interfaces,
                   net_data, history>>

\* The task of get_network_info ends, by a panic in one of its calls into the
\* provider.
NetDies ==
    /\ Running
    /\ npc \in {"refresh", "interfaces"}
    /\ npc' = "dead"
    /\ UNCHANGED <<bus, cpc, store, clock, build, uptime, last_key, proc_task, ncycles,
                   interfaces, net_data, history>>

\* Option::unwrap_or.
unwrap_or(x, default) == IF x = None THEN default ELSE x

\* get_temperature: the loop over the components, which makes a Temperature of
\* each and keeps the ones whose value is not 0.0.
read_temperatures(components) ==
    LET temps == [i \in 1..Len(components) |->
                    [label |-> components[i].label,
                     value |-> unwrap_or(components[i].temperature, 0),
                     max |-> unwrap_or(components[i].max, 0),
                     critical |-> unwrap_or(components[i].critical, 0)]]
    IN  SelectSeq(temps, LAMBDA temp : temp.value # 0)

\* get_temperature: one turn of its loop: refresh the components, send
\* Message::Temperature, sleep five seconds.
TempSendTemperature(component_lists, cycles) ==
    /\ Running
    /\ can_send(bus)
    /\ sent["temp"] < cycles
    /\ Len(bus) <= MaxBacklog
    /\ \E components \in component_lists :
          bus' = send(bus, Message("Temperature", "temp", read_temperatures(components)))
    /\ sent' = [sent EXCEPT !["temp"] = @ + 1]
    /\ UNCHANGED <<cpc, store, clock, build, uptime, last_key, proc_task, net_task,
                   applied, last_seq, backlog, last_procs>>

\* seconds_to_timestamp: the four numbers that format! prints, in the order
\* "{} days {}:{}:{}" prints them.
seconds_to_timestamp(total_seconds) ==
    LET hours == total_seconds \div 3600
        days == hours \div 24
        minutes == (total_seconds % 3600) \div 60
        seconds == total_seconds % 60
    IN  [days |-> days, hours |-> hours, minutes |-> minutes, seconds |-> seconds]

\* get_general_info: the count of each ProcessStatus, and their sum.
status_counts(statuses) ==
    LET count(st) == Cardinality({i \in 1..Len(statuses) : statuses[i] = st})
    IN  [total |-> Len(statuses), running |-> count("Run"), sleep |-> count("Sleep"),
         stopped |-> count("Stop"), zombie |-> count("Zombie")]

\* get_general_info: one turn of its loop: sys.lock().await, refresh_all, the
\* three lines of the message, send Message::GeneralInfo, sleep one second, and
\* the end of the body of the loop, which drops the MutexGuard.
InfoSendGeneralInfo(uptimes, load_averages, status_lists, cycles) ==
    /\ Running
    /\ can_send(bus)
    /\ sys_lock = "free"
    /\ sent["info"] < cycles
    /\ Len(bus) <= MaxBacklog
    /\ uptime' \in uptimes
    /\ \E load_avg \in load_averages, statuses \in status_lists :
          bus' = send(bus, Message("GeneralInfo", "info",
                                   <<seconds_to_timestamp(uptime'), load_avg,
                                     status_counts(statuses)>>))
    /\ sent' = [sent EXCEPT !["info"] = @ + 1]
    /\ UNCHANGED <<cpc, store, clock, build, last_key, proc_task, net_task,
                   applied, last_seq, backlog, last_procs>>

\* ------------------------------------------------------------------ App::run

\* History kept by a receive that applies its message.
Applied(msg) ==
    /\ applied' = [applied EXCEPT ![msg.src] = @ + 1]
    /\ last_seq' = [last_seq EXCEPT ![msg.src] = msg.seq]

\* try_recv takes the front message; backlog is what it leaves behind.
Received ==
    /\ cpc = "recv"
    /\ bus # <<>>
    /\ bus' = try_recv(bus).rest
    /\ backlog' = Len(bus) - 1

\* A receive that, finding the channel empty, forgets the disks.
RecvEmptyResets(then) ==
    /\ cpc = "recv"
    /\ bus = <<>>
    /\ backlog' = 0
    /\ disks_usage' = <<>>
    /\ cpc' = then
    /\ UNCHANGED <<bus, exit, processes, selected, network, cores_usage, mem_usage,
                   blink_threshold, clock, build, uptime, last_key, proc_task, net_task,
                   sent, applied, last_seq, last_procs>>

\* The receive of an iteration, in each of its outcomes; `then` is where
\* App::run goes on.
\*
\* if let Ok(msg) = self.rx.try_recv() on an empty channel: Err(Empty), no arm.
RecvEmpty(then) ==
    /\ cpc = "recv"
    /\ try_recv_empty(bus)
    /\ backlog' = 0
    /\ cpc' = then
    /\ UNCHANGED <<bus, store, clock, build, uptime, last_key, proc_task, net_task,
                   sent, applied, last_seq, last_procs>>

\* Message::Processes: sort_most_consume_cpu, then update_processes.
RecvProcesses(then) ==
    /\ Received
    /\ try_recv(bus).msg.kind = "Processes"
    /\ LET msg == try_recv(bus).msg
       IN  \E sorted \in sort_most_consume_cpu(msg.body) :
              /\ ~sorted.panic
              /\ ~update_processes(processes, sorted.procs).panic
              /\ processes' = update_processes(processes, sorted.procs).processes
              /\ last_procs' = msg.body
              /\ Applied(msg)
    /\ cpc' = then
    /\ UNCHANGED <<exit, selected, network, cores_usage, mem_usage, disks_usage,
                   blink_threshold, clock, build, uptime, last_key, proc_task, net_task, sent>>

\* Message::Processes, with a panic in one of the two sorts: the task running
\* App::run unwinds. self.processes is left as update_processes had it.
RecvProcessesPanic ==
    /\ Received
    /\ try_recv(bus).msg.kind = "Processes"
    /\ LET msg == try_recv(bus).msg
       IN  \E sorted \in sort_most_consume_cpu(msg.body) :
              \/ sorted.panic /\ processes' = processes
              \/ /\ ~sorted.panic
                 /\ update_processes(processes, sorted.procs).panic
                 /\ processes' = update_processes(processes, sorted.procs).processes
    /\ cpc' = "panicked"
    /\ UNCHANGED <<exit, selected, network, cores_usage, mem_usage, disks_usage,
                   blink_threshold, clock, build, uptime, last_key, proc_task, net_task,
                   sent, applied, last_seq, last_procs>>

\* Message::CpuUsage.
RecvCpuUsage(then) ==
    /\ Received
    /\ try_recv(bus).msg.kind = "CpuUsage"
    /\ cores_usage' = try_recv(bus).msg.body
    /\ Applied(try_recv(bus).msg)
    /\ cpc' = then
    /\ UNCHANGED <<exit, processes, selected, network, mem_usage, disks_usage,
                   blink_threshold, clock, build, uptime, last_key, proc_task, net_task,
                   sent, last_procs>>

\* Message::MemUsage.
RecvMemUsage(then) ==
    /\ Received
    /\ try_recv(bus).msg.kind = "MemUsage"
    /\ mem_usage' = try_recv(bus).msg.body
    /\ Applied(try_recv(bus).msg)
    /\ cpc' = then
    /\ UNCHANGED <<exit, processes, selected, network, cores_usage, disks_usage,
                   blink_threshold, clock, build, uptime, last_key, proc_task, net_task,
                   sent, last_procs>>

\* Message::Network.
RecvNetwork(then) ==
    /\ Received
    /\ try_recv(bus).msg.kind = "Network"
    /\ network' = network_update(try_recv(bus).msg.body.upload,
                                 try_recv(bus).msg.body.download)
    /\ Applied(try_recv(bus).msg)
    /\ cpc' = then
    /\ UNCHANGED <<exit, processes, selected, cores_usage, mem_usage, disks_usage,
                   blink_threshold, clock, build, uptime, last_key, proc_task, net_task,
                   sent, last_procs>>

\* Message::DiskUsage.
RecvDiskUsage(then) ==
    /\ Received
    /\ try_recv(bus).msg.kind = "DiskUsage"
    /\ disks_usage' = try_recv(bus).msg.body
    /\ Applied(try_recv(bus).msg)
    /\ cpc' = then
    /\ UNCHANGED <<exit, processes, selected, network, cores_usage, mem_usage,
                   blink_threshold, clock, build, uptime, last_key, proc_task, net_task,
                   sent, last_procs>>

\* The variants of Message that the match of App::run has no arm for.
Unmatched == {"DiskIO", "Temperature", "GeneralInfo"}

\* A message of a variant without an arm: try_recv has taken it, App has no
\* field it could go into, and nothing is assigned.
RecvUnmatched(then) ==
    /\ Received
    /\ try_recv(bus).msg.kind \in Unmatched
    /\ Applied(try_recv(bus).msg)
    /\ cpc' = then
    /\ UNCHANGED <<store, clock, build, uptime, last_key, proc_task, net_task,
                   sent, last_procs>>

\* terminal.draw(|frame| self.ui(frame)): the frame shows the fields as they
\* are; render_table hands self.state to the Table widget.
Draw ==
    /\ cpc = "draw"
    /\ ~render_disks_usage_panics(disks_usage, overflow_checks)
    /\ \E area_empty \in BOOLEAN :
          selected' = render_table(selected, Len(processes), area_empty)
    /\ cpc' = "tick"
    /\ UNCHANGED <<bus, exit, processes, network, cores_usage, mem_usage,
                   disks_usage, blink_threshold, clock, build, uptime, last_key, proc_task, net_task,
                   history>>

\* terminal.draw(|frame| self.ui(frame)) with a panic in render_disks_usage:
\* the task running App::run unwinds.
DrawPanic ==
    /\ cpc = "draw"
    /\ render_disks_usage_panics(disks_usage, overflow_checks)
    /\ cpc' = "panicked"
    /\ UNCHANGED <<bus, store, clock, build, uptime, last_key, proc_task, net_task, history>>

\* terminal.draw(..)?, event::poll(..)? or event::read()? returns an error:
\* App::run returns it.
IoError ==
    /\ cpc \in {"draw", "keys"}
    /\ cpc' = "error"
    /\ UNCHANGED <<bus, store, clock, build, uptime, last_key, proc_task, net_task, history>>

\* Duration::saturating_sub.
saturating_sub(a, b) == IF a >= b THEN a - b ELSE 0

\* Instant::elapsed after d more: beyond both rates every comparison of the
\* model reads the same, so the model stops counting there.
later(e, d) ==
    LET cap == IF config.tick_rate >= config.blink_threshold_rate
               THEN config.tick_rate ELSE config.blink_threshold_rate
    IN  IF e + d >= cap THEN cap ELSE e + d

\* A blink condition that does not look at the timer.
blink_always(e, rate) == TRUE

\* handle_tick_threshold: self.last_tick.elapsed() >= blink_threshold_rate.
blink_due(e, rate) == e >= rate

\* handle_tick_threshold, and the timeout handle_keyboard_events starts with.
HandleTickThreshold ==
    /\ cpc = "tick"
    /\ IF blink_due(elapsed, config.blink_threshold_rate)
       THEN /\ blink_threshold' = ~blink_threshold
            /\ elapsed' = 0
       ELSE UNCHANGED <<blink_threshold, elapsed>>
    /\ timeout' = saturating_sub(config.tick_rate, elapsed')
    /\ cpc' = "keys"
    /\ UNCHANGED <<bus, exit, processes, selected, network, cores_usage, mem_usage,
                   disks_usage, build, uptime, last_key, proc_task, net_task, history>>

\* A match that does not look at key.kind.
key_of_any_kind(event) ==
    IF event.type # "Key" THEN "other"
    ELSE CASE event.code \in {"q", "Esc"} -> "q"
           [] event.code \in {"j", "Down"} -> "j"
           [] event.code \in {"k", "Up"} -> "k"
           [] OTHER -> "other"

\* handle_keyboard_events: what `if let Event::Key(key)`, `key.kind ==
\* KeyEventKind::Press` and `match key.code` make of an event: the arm taken.
key_of(event) ==
    IF event.type # "Key" \/ event.kind # "Press" THEN "other"
    ELSE CASE event.code \in {"q", "Esc"} -> "q"
           [] event.code \in {"j", "Down"} -> "j"
           [] event.code \in {"k", "Up"} -> "k"
           [] OTHER -> "other"

\* handle_keyboard_events: event::poll(timeout) finds an event after waiting
\* `waited`, event::read returns it. `key` is the code of a key press; every
\* other event is "other".
KeyEvent(keys) ==
    /\ cpc = "keys"
    /\ \E waited \in 0..timeout : elapsed' = later(elapsed, waited)
    /\ \E key \in keys :
          /\ last_key' = key
          /\ \/ /\ key = "q"
                /\ exit' = TRUE
                /\ UNCHANGED <<selected, cpc>>
             \/ /\ key = "j"
                /\ LET r == next_row(selected, Len(processes), overflow_checks)
                   IN  \/ /\ ~r.panic
                          /\ r.row <= MaxSelected
                          /\ selected' = r.row
                          /\ UNCHANGED cpc
                       \/ /\ r.panic
                          /\ cpc' = "panicked"
                          /\ UNCHANGED selected
                /\ UNCHANGED exit
             \/ /\ key = "k"
                /\ selected' = previous_row(selected)
                /\ UNCHANGED <<exit, cpc>>
             \/ /\ key = "other"
                /\ UNCHANGED <<exit, selected, cpc>>
    /\ UNCHANGED <<bus, processes, network, cores_usage, mem_usage, disks_usage,
                   blink_threshold, timeout, build, uptime, proc_task, net_task, history>>

\* handle_keyboard_events: event::poll(timeout) finds nothing within timeout.
PollTimeout ==
    /\ cpc = "keys"
    /\ elapsed' = later(elapsed, timeout)
    /\ cpc' = "sleep"
    /\ last_key' = ""
    /\ UNCHANGED <<bus, store, timeout, build, uptime, proc_task, net_task, history>>

\* tokio::time::sleep(100 ms), then the loop condition !self.exit.
Sleep ==
    /\ cpc = "sleep"
    /\ elapsed' = later(elapsed, 1)
    /\ cpc' = IF exit THEN "done" ELSE "recv"
    /\ UNCHANGED <<bus, store, timeout, build, uptime, last_key, proc_task, net_task, history>>

\* ------------------------------------------------------------------ the program

\* The whole program, on the default configuration.
Init == InitWith({DefaultConfig}, BOOLEAN)

Next ==
    \/ RunStart(PipelineDisks)
    \/ ProcSendProcesses(PipelineSnapshots, MaxCycles, MaxBacklog)
    \/ ProcSendMemUsage(PipelineMemUsage)
    \/ ProcSendCoresUsage(PipelineCoresUsage)
    \/ ProcWake
    \/ NetRefresh(PipelineInterfaces)
    \/ NetSendNetwork
    \/ NetSkipInterface
    \/ NetSleep
    \/ RecvEmpty("draw")
    \/ RecvProcesses("draw")
    \/ RecvProcessesPanic
    \/ RecvCpuUsage("draw")
    \/ RecvMemUsage("draw")
    \/ RecvNetwork("draw")
    \/ RecvDiskUsage("draw")
    \/ Draw
    \/ IoError
    \/ HandleTickThreshold
    \/ KeyEvent(KeyCodes)
    \/ PollTimeout
    \/ Sleep

Spec == Init /\ [][Next]_vars

\* The pipeline: the samplers and the run loop, with a user who does not move
\* the selection.
PipelineInit == InitWith({FastBlinkConfig}, {FALSE})

PipelineNext ==
    \/ RunStart(PipelineDisks)
    \/ ProcSendProcesses(PipelineSnapshots, MaxCycles, MaxBacklog)
    \/ ProcSendMemUsage(PipelineMemUsage)
    \/ ProcSendCoresUsage(PipelineCoresUsage)
    \/ ProcWake
    \/ NetRefresh(PipelineInterfaces)
    \/ NetSendNetwork
    \/ NetSkipInterface
    \/ NetSleep
    \/ RecvEmpty("draw")
    \/ RecvProcesses("draw")
    \/ RecvProcessesPanic
    \/ RecvCpuUsage("draw")
    \/ RecvMemUsage("draw")
    \/ RecvNetwork("draw")
    \/ RecvDiskUsage("draw")
    \/ Draw
    \/ IoError
    \/ HandleTickThreshold
    \/ KeyEvent({"q", "other"})
    \/ PollTimeout
    \/ Sleep

PipelineSpec == PipelineInit /\ [][PipelineNext]_vars

\* The pipeline under a fair scheduler: App::run, once called, keeps taking
\* its next step (the user stops typing at some point); nothing is asked of
\* the sampler tasks.
RunStep ==
    \/ RunStart(PipelineDisks)
    \/ RecvEmpty("draw")
    \/ RecvProcesses("draw")
    \/ RecvProcessesPanic
    \/ RecvCpuUsage("draw")
    \/ RecvMemUsage("draw")
    \/ RecvNetwork("draw")
    \/ RecvDiskUsage("draw")
    \/ Draw
    \/ HandleTickThreshold
    \/ PollTimeout
    \/ Sleep

FairPipelineSpec == PipelineSpec /\ WF_vars(RunStep)

\* The process table: the process sampler, whose sleep lasts until the channel
\* is empty, and the receive of App::run, which goes from one receive to the
\* next.
TableInit == InitWith({DefaultConfig}, {FALSE})

TableNext ==
    \/ RunStart(PipelineDisks)
    \/ ProcSendProcesses(TableSnapshots, MaxCycles + 1, 0)
    \/ ProcSendMemUsage(PipelineMemUsage)
    \/ ProcSendCoresUsage(PipelineCoresUsage)
    \/ ProcWake
    \/ RecvEmpty("recv")
    \/ RecvProcesses("recv")
    \/ RecvProcessesPanic
    \/ RecvCpuUsage("recv")
    \/ RecvMemUsage("recv")
    \/ RecvDiskUsage("recv")

TableSpec == TableInit /\ [][TableNext]_vars

\* The selection: App::run with a user at the keyboard and the process sampler,
\* whose sleep lasts until the channel is empty, in a debug or a release build.
SelectionInit == InitWith({FastBlinkConfig}, BOOLEAN)

SelectionNext ==
    \/ RunStart(PipelineDisks)
    \/ ProcSendProcesses(SelectionSnapshots, MaxCycles + 1, 0)
    \/ ProcSendMemUsage(PipelineMemUsage)
    \/ ProcSendCoresUsage(PipelineCoresUsage)
    \/ ProcWake
    \/ RecvEmpty("draw")
    \/ RecvProcesses("draw")
    \/ RecvCpuUsage("draw")
    \/ RecvMemUsage("draw")
    \/ RecvDiskUsage("draw")
    \/ Draw
    \/ IoError
    \/ HandleTickThreshold
    \/ KeyEvent(KeyCodes)
    \/ PollTimeout
    \/ Sleep

SelectionSpec == SelectionInit /\ [][SelectionNext]_vars

\* The blink timer: App::run on its own, under either configuration, with a
\* user who does not move the selection.
BlinkInit == InitWith({DefaultConfig, FastBlinkConfig}, {FALSE})

BlinkNext ==
    \/ RunStart(PipelineDisks)
    \/ RecvEmpty("draw")
    \/ RecvDiskUsage("draw")
    \/ Draw
    \/ IoError
    \/ HandleTickThreshold
    \/ KeyEvent({"q", "other"})
    \/ PollTimeout
    \/ Sleep

BlinkSpec == BlinkInit /\ [][BlinkNext]_vars

\* The disks: App::run on its own with any of the disk lists, in a debug or a
\* release build.
DiskInit == InitWith({FastBlinkConfig}, BOOLEAN)

DiskNext ==
    \/ RunStart(DiskLists)
    \/ RecvEmpty("draw")
    \/ RecvDiskUsage("draw")
    \/ Draw
    \/ DrawPanic
    \/ IoError
    \/ HandleTickThreshold
    \/ KeyEvent({"q", "other"})
    \/ PollTimeout
    \/ Sleep

DiskSpec == DiskInit /\ [][DiskNext]_vars

\* The network: App::run and the network sampler, with a user who does not
\* move the selection.
NetworkInit == InitWith({FastBlinkConfig}, {FALSE})

NetworkNext ==
    \/ RunStart(PipelineDisks)
    \/ NetRefresh(NetworkInterfaces)
    \/ NetSendNetwork
    \/ NetSkipInterface
    \/ NetSleep
    \/ RecvEmpty("draw")
    \/ RecvNetwork("draw")
    \/ RecvDiskUsage("draw")
    \/ Draw
    \/ IoError
    \/ HandleTickThreshold
    \/ KeyEvent({"q", "other"})
    \/ PollTimeout
    \/ Sleep

NetworkSpec == NetworkInit /\ [][NetworkNext]_vars

\* Faults: App::run and both sampler tasks, with processes whose user is not
\* to be found and a network sampler that can end.
FaultInit == InitWith({FastBlinkConfig}, {FALSE})

FaultNext ==
    \/ RunStart(PipelineDisks)
    \/ ProcSendProcesses(FaultSnapshots, MaxCycles + 1, MaxBacklog)
    \/ ProcPanic(FaultSnapshots, MaxCycles + 1, MaxBacklog)
    \/ ProcSendMemUsage(PipelineMemUsage)
    \/ ProcSendCoresUsage(PipelineCoresUsage)
    \/ ProcWake
    \/ NetRefresh(PipelineInterfaces)
    \/ NetSendNetwork
    \/ NetSkipInterface
    \/ NetSleep
    \/ NetDies
    \/ RecvEmpty("draw")
    \/ RecvProcesses("draw")
    \/ RecvCpuUsage("draw")
    \/ RecvMemUsage("draw")
    \/ RecvNetwork("draw")
    \/ RecvDiskUsage("draw")
    \/ Draw
    \/ IoError
    \/ HandleTickThreshold
    \/ KeyEvent({"q", "other"})
    \/ PollTimeout
    \/ Sleep

FaultSpec == FaultInit /\ [][FaultNext]_vars

\* The filter of the process sampler: the process sampler, whose sleep lasts
\* until the channel is empty, and the receive of App::run.
FilterInit == InitWith({DefaultConfig}, {FALSE})

FilterNext ==
    \/ RunStart(PipelineDisks)
    \/ ProcSendProcesses(FilterSnapshots, MaxCycles + 1, 0)
    \/ ProcSendMemUsage(PipelineMemUsage)
    \/ ProcSendCoresUsage(PipelineCoresUsage)
    \/ ProcWake
    \/ RecvEmpty("recv")
    \/ RecvProcesses("recv")
    \/ RecvProcessesPanic
    \/ RecvCpuUsage("recv")
    \/ RecvMemUsage("recv")
    \/ RecvDiskUsage("recv")

FilterSpec == FilterInit /\ [][FilterNext]_vars

\* The input: the process sampler and App::run, with every event that
\* event::read() can return, in a debug or a release build.
InputInit == InitWith({FastBlinkConfig}, BOOLEAN)

InputNext ==
    \/ RunStart(PipelineDisks)
    \/ ProcSendProcesses(SelectionSnapshots, MaxCycles + 1, 0)
    \/ ProcSendMemUsage(PipelineMemUsage)
    \/ ProcSendCoresUsage(PipelineCoresUsage)
    \/ ProcWake
    \/ RecvEmpty("draw")
    \/ RecvProcesses("draw")
    \/ RecvCpuUsage("draw")
    \/ RecvMemUsage("draw")
    \/ RecvDiskUsage("draw")
    \/ Draw
    \/ IoError
    \/ HandleTickThreshold
    \/ KeyEvent({key_of(event) : event \in Events})
    \/ PollTimeout
    \/ Sleep

InputSpec == InputInit /\ [][InputNext]_vars

\* The merge of the messages into the fields of App: every sender of a variant
\* of Message that cmd/mod.rs has, of which App::run spawns the first three,
\* and the receive of App::run.
MergeInit == InitWith({DefaultConfig}, {FALSE})

MergeNext ==
    \/ RunStart(PipelineDisks)
    \/ ProcSendProcesses(PipelineSnapshots, MaxCycles, MaxBacklog)
    \/ ProcSendMemUsage(PipelineMemUsage)
    \/ ProcSendCoresUsage(PipelineCoresUsage)
    \/ ProcWake
    \/ NetRefresh(PipelineInterfaces)
    \/ NetSendNetwork
    \/ NetSkipInterface
    \/ NetSleep
    \/ TempSendTemperature(MergeComponents, MaxCycles)
    \/ InfoSendGeneralInfo(Uptimes, LoadAverages, StatusLists, MaxCycles)
    \/ RecvEmpty("recv")
    \/ RecvProcesses("recv")
    \/ RecvProcessesPanic
    \/ RecvCpuUsage("recv")
    \/ RecvMemUsage("recv")
    \/ RecvNetwork("recv")
    \/ RecvDiskUsage("recv")
    \/ RecvUnmatched("recv")

MergeSpec == MergeInit /\ [][MergeNext]_vars

\* ------------------------------------------------------------------ claims

\* App::run has returned or unwound.
Ended == cpc \in {"done", "error", "panicked"}

\* C1: when a frame is drawn, no message that was in the channel when this
\* iteration's receive began is still in the channel.
C1_DrainedBeforeRender == cpc = "draw" => backlog = 0

\* C2: every message a sampler sends is in the end applied, unless App::run
\* ends first; and the k-th message applied of a sampler is the k-th it sent,
\* so none is applied twice and none is passed over.
C2_NoMessageLost ==
    /\ \A s \in Samplers : \A n \in 1..(3 * MaxCycles) :
          []<>(sent[s] >= n => applied[s] >= n \/ Ended)
    /\ [][\A s \in Samplers :
            applied'[s] # applied[s] =>
                applied'[s] = applied[s] + 1 /\ last_seq'[s] = applied'[s]]_vars

C2_Witness ==
    /\ applied["proc"] = 3
    /\ applied["net"] = 1
    /\ applied["disk"] = 1

\* C3: the messages of one sampler are applied in the order it sent them.
C3_PerProducerFifo ==
    [][\A s \in Samplers :
          applied'[s] # applied[s] => last_seq'[s] > last_seq[s]]_vars

C3_Witness ==
    /\ applied["proc"] >= 2
    /\ applied["net"] >= 1
    /\ last_seq["proc"] >= 2

\* C4: App::run keeps drawing frames until it ends, whatever the samplers do,
\* and a sampler at a send is never held up.
C4_ConsumerNeverWaits ==
    /\ []<>(cpc = "tick" \/ Ended)
    /\ [](Running /\ ppc = "send_mem" => ENABLED ProcSendMemUsage(PipelineMemUsage))
    /\ [](Running /\ ppc = "send_cores"
            => ENABLED ProcSendCoresUsage(PipelineCoresUsage))
    /\ [](Running /\ npc = "interfaces" /\ interfaces # <<>>
            => ENABLED (NetSendNetwork \/ NetSkipInterface))

C4_Witness ==
    /\ cpc = "tick"
    /\ bus = <<>>
    /\ ppc = "refresh" /\ pcycles = MaxCycles
    /\ npc = "refresh" /\ ncycles = MaxCycles
    /\ applied["proc"] = sent["proc"]

\* The place of the row of process pid in s.
PlaceOf(s, pid) == CHOOSE i \in 1..Len(s) : s[i].pid = pid

\* C5: while App::run has not panicked, each row of the process table has a
\* cpu share at least that of the row after it.
C5_SortedByCpuDescending ==
    cpc # "panicked" =>
        \A i \in 1..(Len(processes) - 1) :
            /\ ~IsNaN(processes[i].cpu_usage)
            /\ ~IsNaN(processes[i + 1].cpu_usage)
            /\ processes[i].cpu_usage >= processes[i + 1].cpu_usage

\* A second Processes message, whose rows came in ascending order, has been
\* applied.
C5_Witness ==
    /\ cpc # "panicked"
    /\ applied["proc"] >= 4
    /\ Len(last_procs) = 3
    /\ last_procs[1].cpu_usage = 1
    /\ last_procs[2].cpu_usage = 2
    /\ last_procs[3].cpu_usage = 3
    /\ Len(processes) = 2
    /\ processes[1].cpu_usage = 3

\* C6: the process table holds the rows of the Processes message applied last,
\* and of no other: every entry of that message at or over the floor is a row,
\* no row is under the floor, every row is an entry of that message, and no
\* process has two rows.
C6_ExactlyLatestMessage ==
    cpc # "panicked" =>
        /\ \A i \in 1..Len(last_procs) :
              ~f32_lt(last_procs[i].cpu_usage, CPU_FLOOR)
                  => last_procs[i] \in Range(processes)
        /\ \A i \in 1..Len(processes) :
              /\ processes[i] \in Range(last_procs)
              /\ ~f32_lt(processes[i].cpu_usage, CPU_FLOOR)
        /\ \A i, j \in 1..Len(processes) :
              i # j => processes[i].pid # processes[j].pid

\* The sampler's second message has been applied: it lacks a process the first
\* cycle can have shown, and has one entry under the floor and one over it.
C6_Witness ==
    /\ cpc # "panicked"
    /\ pcycles = 2
    /\ applied["proc"] >= 4
    /\ Len(last_procs) = 2
    /\ \E i \in 1..2 : last_procs[i].cpu_usage = 1
    /\ Len(processes) = 1
    /\ processes[1].cpu_usage = 3

\* C7: two rows of the process table with the same cpu share stand in the order
\* their entries had in the Processes message, which is the order of the
\* sampler's snapshot.
C7_TiesKeepSnapshotOrder ==
    cpc # "panicked" =>
        \A i, j \in 1..Len(processes) :
            i < j /\ processes[i].cpu_usage = processes[j].cpu_usage
                => PlaceOf(last_procs, processes[i].pid)
                       < PlaceOf(last_procs, processes[j].pid)

\* A message with a tie between process 3 and process 1, in that order, under a
\* row with a larger share that came last.
C7_Witness ==
    /\ cpc # "panicked"
    /\ Len(processes) = 3
    /\ processes[1].cpu_usage = 3 /\ processes[1].pid = 2
    /\ processes[2].cpu_usage = 2 /\ processes[2].pid = 3
    /\ processes[3].cpu_usage = 2 /\ processes[3].pid = 1
    /\ last_procs[3].pid = 2

\* handle_keyboard_events is about to act on a MoveSelectionDown ('j') or a
\* MoveSelectionUp ('k').
MoveCommand == cpc = "keys" /\ last_key' \in {"j", "k"}

InRows(sel) == sel # None /\ 0 <= sel /\ sel <= Len(processes) - 1

\* C8: on a process table of N > 0 rows, a MoveSelectionDown or MoveSelectionUp
\* issued with the selection unset or in [0, N-1] does not panic and leaves the
\* selection in [0, N-1]; so it stays there through any sequence of them.
C8_SelectionStaysInRows ==
    [][MoveCommand /\ Len(processes) > 0 /\ (selected = None \/ InRows(selected))
          => cpc' # "panicked" /\ InRows(selected')]_vars

\* MoveSelectionDown has brought the selection to the last of three rows and
\* has been issued again there.
C8_Witness ==
    /\ cpc = "keys"
    /\ last_key = "j"
    /\ Len(processes) = 3
    /\ selected = 2

\* C9: the selection is unset when the process table is empty and is the index
\* of a row when it is not.
C9_SelectionClamped ==
    IF Len(processes) = 0 THEN selected = None ELSE InRows(selected)

\* C10: a MoveSelectionDown or MoveSelectionUp on an empty process table does
\* not panic and changes nothing in the App.
C10_EmptyTableMoveIsNoOp ==
    [][MoveCommand /\ Len(processes) = 0
          => cpc' # "panicked" /\ UNCHANGED store]_vars

\* C11: on a process table of N > 0 rows with the selection on row r,
\* MoveSelectionDown ('j') gives r + 1, or N - 1 when r is the last row, and
\* MoveSelectionUp ('k') gives r - 1, or 0 when r is row 0: no wrapping.
C11_MovesSaturate ==
    [][/\ KeyEvent({"j"}) /\ Len(processes) > 0 /\ InRows(selected)
          => selected' = IF selected = Len(processes) - 1
                         THEN Len(processes) - 1 ELSE selected + 1
       /\ KeyEvent({"k"}) /\ Len(processes) > 0 /\ InRows(selected)
          => selected' = IF selected = 0 THEN 0 ELSE selected - 1]_vars

\* MoveSelectionUp has taken the selection from the last of three rows to the
\* middle one.
C11_Witness ==
    /\ cpc = "keys"
    /\ last_key = "k"
    /\ Len(processes) = 3
    /\ selected = 1

\* C12: handle_tick_threshold flips the blink flag, and restarts the timer,
\* exactly when the timer has reached blink_threshold_rate; nothing else flips
\* the flag, and nothing else restarts the timer, so the timer is the time
\* since the last flip and ticks inside one interval flip nothing.
C12_BlinkOncePerInterval ==
    /\ [][cpc = "tick" /\ cpc' = "keys" =>
            /\ blink_threshold' # blink_threshold
                  <=> elapsed >= config.blink_threshold_rate
            /\ elapsed' = IF blink_threshold' # blink_threshold THEN 0 ELSE elapsed]_vars
    /\ [][blink_threshold' # blink_threshold => cpc = "tick"]_vars
    /\ [][elapsed' < elapsed => blink_threshold' # blink_threshold]_vars

\* On the default rates (ticks of 100 ms, blink of 1 s) the flag has just been
\* flipped to TRUE, after ticks that left it alone.
C12_Witness ==
    /\ config = DefaultConfig
    /\ cpc = "keys"
    /\ blink_threshold = TRUE
    /\ elapsed = 0

\* C13: for a disk of capacity zero percent_used_space returns 0, whatever
\* its available space, and does not panic.
C13_ZeroCapacityIsZero ==
    \A i \in 1..Len(disks_usage) :
        disks_usage[i].total_space = 0 =>
            percent_used_space(disks_usage[i], overflow_checks)
                = [panic |-> FALSE, value |-> 0]

\* C14: for a disk of capacity total > 0 with available <= total,
\* percent_used_space returns floor((total - available) * 100 / total), a value
\* in 0..100, without underflow, overflow or panic.
C14_PercentOfCapacity ==
    \A i \in 1..Len(disks_usage) :
        LET total == disks_usage[i].total_space
            available == disks_usage[i].available_space
            percent == percent_used_space(disks_usage[i], overflow_checks)
        IN  total > 0 /\ available <= total =>
                /\ ~percent.panic
                /\ percent.value = ((total - available) * 100) \div total
                /\ percent.value \in 0..100

\* C15: a receive that finds the channel empty leaves every field of the App
\* as it was.
C15_EmptyReceiveChangesNothing ==
    [][cpc = "recv" /\ bus = <<>> /\ cpc' = "draw" => UNCHANGED store]_vars

\* The only message sent so far is the DiskUsage message, it has been applied,
\* and App::run is in a later iteration: the receive of that iteration found
\* the channel empty, and the disks are still there.
C15_Witness ==
    /\ cpc = "keys"
    /\ blink_threshold = TRUE
    /\ sent = [s \in Samplers |-> IF s = "disk" THEN 1 ELSE 0]
    /\ applied = sent
    /\ disks_usage # <<>>

\* C16: the network sampler sends one Network message in each cycle, the k-th
\* in its k-th cycle, and sends it when no interface that matches is still to
\* be added, so that the message holds the sums over all of them.
C16_OneSumPerCycle ==
    [][sent'["net"] # sent["net"] =>
          /\ sent'["net"] = ncycles
          /\ \A i \in 1..Len(interfaces') : ~interfaces'[i].physical]_vars

\* C17: the exit flag, once set, stays set; with the flag set App::run neither
\* receives nor draws again; and App::run leaves its loop only by returning
\* Ok(()) with the flag set or by returning an I/O error.
C17_RunningUntilExit ==
    /\ [][exit => exit']_vars
    /\ [][exit /\ cpc' # cpc => cpc' \notin {"recv", "draw", "tick"}]_vars
    /\ [][Running /\ ~Running' => (exit /\ cpc' = "done") \/ cpc' = "error"]_vars

\* C18: when both sampler tasks have ended and the channel is empty, the
\* receive of App::run leads to the return of an error, not to another frame.
C18_ClosedChannelIsFatal ==
    [][cpc = "recv" /\ cpc' # cpc /\ bus = <<>> /\ ppc = "dead" /\ npc = "dead"
          => cpc' = "error"]_vars

\* C19: the process sampler is never asleep between two cycles with the Mutex
\* around sysinfo::System in its hands.
C19_LockReleasedBeforeSleep == ~(ppc = "sleep" /\ sys_lock = "proc")

\* C20: every cycle the process sampler begins sends a Processes message, and
\* the sampler lives on.
C20_LookupFailureTolerated ==
    [][pcycles' # pcycles =>
          sent'["proc"] = sent["proc"] + 1 /\ ppc' # "dead"]_vars

\* C21: every entry of a published Processes message has a cpu share above
\* zero and a published (rounded) memory share above zero.
C21_PublishedSharesPositive ==
    \A i \in 1..Len(bus) :
        bus[i].kind = "Processes" =>
            \A k \in 1..Len(bus[i].body) :
                /\ f32_lt(0, bus[i].body[k].cpu_usage)
                /\ f32_lt(0, bus[i].body[k].mem_usage)

\* The categories of message that replace a field, by the variant of Message
\* that carries them.
Categories == {"CpuUsage", "MemUsage", "Network", "DiskUsage", "Temperature",
               "GeneralInfo"}

\* The field of App of a category holds the payload after the step; App has
\* no field for the last two categories.
Replaced(kind, body) ==
    CASE kind = "CpuUsage" -> cores_usage' = body
      [] kind = "MemUsage" -> mem_usage' = body
      [] kind = "Network" -> network' = body
      [] kind = "DiskUsage" -> disks_usage' = body
      [] OTHER -> FALSE

\* The field of App of a category is what it was before the step.
Kept(kind) ==
    CASE kind = "CpuUsage" -> UNCHANGED cores_usage
      [] kind = "MemUsage" -> UNCHANGED mem_usage
      [] kind = "Network" -> UNCHANGED network
      [] kind = "DiskUsage" -> UNCHANGED disks_usage
      [] OTHER -> TRUE

\* C22: the receive of a message of one category leaves the payload in the
\* field of that category, and changes no field of another category, nor the
\* process table, the selection, the blink flag or the exit flag.
C22_CategoryReplacedAlone ==
    [][cpc = "recv" /\ bus # <<>> /\ bus' = Tail(bus) /\ Head(bus).kind \in Categories
          => /\ Replaced(Head(bus).kind, Head(bus).body)
             /\ \A kind \in Categories \ {Head(bus).kind} : Kept(kind)
             /\ UNCHANGED <<processes, selected, blink_threshold, exit>>]_vars

\* The time handle_keyboard_events has spent in its polls so far: what
\* last_tick.elapsed() shows now, less what it showed when the timeout was
\* computed, which is tick_rate - timeout when the timeout is above zero; a
\* timeout of zero makes every poll return at once.
input_time == IF timeout = 0 THEN 0 ELSE elapsed - (config.tick_rate - timeout)

\* C23: the time handle_keyboard_events spends in all its polls together is at
\* most the budget it computed, the time that was left until the next tick.
C23_InputWithinBudget == cpc = "keys" => input_time <= timeout

\* The events that are a command: a press of 'q' or Esc (Exit), of 'j' or Down
\* (MoveSelectionDown), of 'k' or Up (MoveSelectionUp).
IsCommand(event) ==
    /\ event.type = "Key"
    /\ event.kind = "Press"
    /\ event.code \in {"q", "Esc", "j", "Down", "k", "Up"}

\* C24: an event that is not one of the three commands changes no field of the
\* App, and MoveSelectionDown and MoveSelectionUp change neither the exit flag
\* nor a data field.
C24_OnlyCommandsChangeState ==
    [][/\ \A event \in Events :
             ~IsCommand(event) /\ KeyEvent({key_of(event)}) => UNCHANGED store
       /\ KeyEvent({"j", "k"})
             => UNCHANGED <<exit, processes, network, cores_usage, mem_usage,
                            disks_usage, blink_threshold>>]_vars

\* An event that is no command has been read, with the selection on the
\* second of three rows, where a MoveSelectionDown had taken it.
C24_Witness ==
    /\ cpc = "keys"
    /\ last_key = "other"
    /\ Len(processes) = 3
    /\ selected = 1
    /\ ~exit

\* C25: the days, hours, minutes and seconds that seconds_to_timestamp prints
\* of an uptime have hours < 24, minutes < 60 and seconds < 60, and add up to
\* the uptime: so it is for the uptime that get_general_info read last, in the
\* message it then sent.
C25_UptimeDecomposed ==
    \A i \in 1..Len(bus) :
        bus[i].kind = "GeneralInfo" /\ bus[i].seq = sent["info"] =>
            LET t == bus[i].body[1]
            IN  /\ t.hours < 24
                /\ t.minutes < 60
                /\ t.seconds < 60
                /\ t.days * 86400 + t.hours * 3600 + t.minutes * 60 + t.seconds = uptime

====
